---- MODULE Spec2Model ----
(***************************************************************************)
(* A model of the form decoder of amerium/form: the Decoder configuration, *)
(* the pool of decode contexts, the steps of Decoder.Decode as concurrent  *)
(* callers run them, and the structural traversal the decode call hands    *)
(* the target to.  External paths are sequences of tokens: "A.Field" is    *)
(* <<"A", ".", "Field">> and "Tags[2]" is <<"Tags", "[2]">>.               *)
(***************************************************************************)
EXTENDS Integers, Sequences, FiniteSets, TLC

\* ------------------------------------------------------------ bounds
\* callers that may be inside Decode at the same time
MaxProcs == 2
\* Decode/Encode calls one behaviour makes
MaxCalls == 2
\* decode contexts the pool's New function creates in one behaviour
MaxCtx == 2

\* ------------------------------------------------------------ constants
defaultMaxArraySize == 10000

Procs == 1..MaxProcs
CtxIds == 1..MaxCtx

\* the absent reference (nil sink, nil error, nil context)
None == 0

\* ------------------------------------------------------------ leaf values
StrV(s) == [k |-> "string", s |-> s, n |-> 0]
IntV(n) == [k |-> "int", s |-> "", n |-> n]
TimeV(s) == [k |-> "time", s |-> s, n |-> 0]
LenV(n) == [k |-> "len", s |-> "", n |-> n]
CustomV(raw, arg) == [k |-> "custom", s |-> raw, n |-> arg]
ErrV(msg) == [k |-> "error", s |-> msg, n |-> 0]

\* the empty mapping (no key)
Empty == [x \in {} |-> None]

\* ------------------------------------------------------------ types
Field(name, tag, anon, typ) == [name |-> name, tag |-> tag, anon |-> anon, typ |-> typ]

Scalar(kind) == [kind |-> kind, fields |-> <<>>, elem |-> "", len |-> 0]
Struct(fields) == [kind |-> "struct", fields |-> fields, elem |-> "", len |-> 0]

\* type A of the embedded-decoder example
TypeA == Struct(<< Field("Field", "", FALSE, "string") >>)

\* type B of the embedded-decoder example: embeds A and declares its own Field
TypeB == Struct(<< Field("A", "", TRUE, "A"), Field("Field", "", FALSE, "string") >>)

\* type S of TestEncoder_Encode_deep_embed
TypeS == Struct(<< Field("Writer", "", TRUE, "io.Writer"),
                   Field("Header", "header", FALSE, "string") >>)

\* type S of TestEncoder_Encode_unexported_embed
TypeS2 == Struct(<< Field("Writer", "", TRUE, "io.Writer"),
                    Field("DeeperEmbedded", "", TRUE, "internal.DeeperEmbedded"),
                    Field("Header", "header", FALSE, "string") >>)

\* the types of package internal the second test embeds
TypeDeeperEmbedded == Struct(<< Field("embedded", "", TRUE, "internal.embedded") >>)
TypeEmbedded == Struct(<< Field("DeeplyEmbedded", "deeply-embedded", FALSE, "string") >>)
TypeWriterWithExported == Struct(<< Field("WriterExported", "writer-exported", FALSE, "string"),
                                    Field("Hidden", "", FALSE, "string") >>)

\* a record with a registered-type field, a slice, an array and scalars
TypeUser == Struct(<< Field("Name", "", FALSE, "string"), Field("Age", "", FALSE, "int") >>)
TypeForm == Struct(<< Field("User", "", FALSE, "User"),
                      Field("Tags", "", FALSE, "[]string"),
                      Field("Pair", "", FALSE, "[2]string"),
                      Field("Count", "", FALSE, "int") >>)

TypeInfo(t) ==
    CASE t = "string" -> Scalar("string")
      [] t = "int" -> Scalar("int")
      [] t = "time.Time" -> Scalar("time")
      [] t = "io.Writer" -> Scalar("iface")
      [] t = "form.embeddedUnexported" -> Scalar("func")
      [] t = "[]string" -> [kind |-> "slice", fields |-> <<>>, elem |-> "string", len |-> 0]
      [] t = "[2]string" -> [kind |-> "array", fields |-> <<>>, elem |-> "string", len |-> 2]
      [] t = "map[string]int" -> [kind |-> "map", fields |-> <<>>, elem |-> "int", len |-> 0]
      [] t = "A" -> TypeA
      [] t = "B" -> TypeB
      [] t = "S" -> TypeS
      [] t = "S2" -> TypeS2
      [] t = "internal.DeeperEmbedded" -> TypeDeeperEmbedded
      [] t = "internal.embedded" -> TypeEmbedded
      [] t = "internal.writerWithExported" -> TypeWriterWithExported
      [] t = "User" -> TypeUser
      [] t = "Form" -> TypeForm

Kind(t) == TypeInfo(t).kind

\* ------------------------------------------------------------ conversions
\* strconv.Atoi on the strings the inputs use
Atoi(s) ==
    CASE s = "0" -> [ok |-> TRUE, n |-> 0]
      [] s = "1" -> [ok |-> TRUE, n |-> 1]
      [] s = "2" -> [ok |-> TRUE, n |-> 2]
      [] s = "7" -> [ok |-> TRUE, n |-> 7]
      [] s = "9999" -> [ok |-> TRUE, n |-> 9999]
      [] s = "10000" -> [ok |-> TRUE, n |-> 10000]
      [] OTHER -> [ok |-> FALSE, n |-> 0]

\* a bracketed token of a key, and the text between its brackets
IsIndexToken(tok) == tok \in {"[0]", "[1]", "[2]", "[9999]", "[10000]", "[k]"}

TokenValue(tok) ==
    CASE tok = "[0]" -> "0"
      [] tok = "[1]" -> "1"
      [] tok = "[2]" -> "2"
      [] tok = "[9999]" -> "9999"
      [] tok = "[10000]" -> "10000"
      [] tok = "[k]" -> "k"

\* primitive string -> scalar conversion
Convert(kind, s) ==
    CASE kind = "string" -> [ok |-> TRUE, v |-> StrV(s)]
      [] kind = "int" -> IF Atoi(s).ok THEN [ok |-> TRUE, v |-> IntV(Atoi(s).n)]
                         ELSE [ok |-> FALSE, v |-> ErrV("invalid integer")]
      [] kind = "time" -> IF s = "2026-01-02T03:04:05Z" THEN [ok |-> TRUE, v |-> TimeV(s)]
                          ELSE [ok |-> FALSE, v |-> ErrV("invalid time")]

\* the custom decode function the callers register: it fails on "bad" and
\* otherwise builds its value from the raw string and the auxiliary argument
CustomFn(raw, arg) ==
    IF raw = "bad" THEN [ok |-> FALSE, v |-> ErrV("custom")]
    ELSE [ok |-> TRUE, v |-> CustomV(raw, arg)]

\* the tag-name function the callers register: func(field) string { return field.Name }
TagNameFn(f) == f.name

\* ------------------------------------------------------------ configuration
\* NewDecoder: the defaults of a new Decoder
NewDecoder ==
    [tagName |-> "form", mode |-> "implicit", tagFn |-> FALSE,
     maxArraySize |-> defaultMaxArraySize, customTypeFuncs |-> {},
     namespacePrefix |-> <<".">>, namespaceSuffix |-> <<>>]

\* ------------------------------------------------------------ namespace builder
\* the path of the field called name under namespace ns
FieldPath(c, ns, name) ==
    IF Len(ns) = 0 THEN <<name>>
    ELSE ns \o c.namespacePrefix \o <<name>> \o c.namespaceSuffix

IndexPath(ns, tok) == Append(ns, tok)

\* ------------------------------------------------------------ index collector
Max(S) == CHOOSE x \in S : \A y \in S : y <= x

\* the (alias, token) pairs one key contributes: one per bracketed token
KeyIndexes(k) ==
    { [alias |-> SubSeq(k, 1, i - 1), tok |-> k[i]] :
        i \in { j \in 1..Len(k) : IsIndexToken(k[j]) } }

\* one record per alias: the tokens found for it and the length they need
ParseMapData(values) ==
    LET pairs == UNION { KeyIndexes(k) : k \in DOMAIN values }
        aliases == { p.alias : p \in pairs }
        toks(a) == { p.tok : p \in { q \in pairs : q.alias = a } }
        nums(a) == { Atoi(TokenValue(t)).n : t \in { u \in toks(a) : Atoi(TokenValue(u)).ok } }
    IN  [a \in aliases |->
            [alias |-> a,
             sliceLen |-> IF nums(a) = {} THEN 0 ELSE Max(nums(a)) + 1,
             keys |-> toks(a)]]

\* the tokens of a record, numeric ones in ascending order, the others last
Rank(tok) == IF Atoi(TokenValue(tok)).ok THEN Atoi(TokenValue(tok)).n ELSE defaultMaxArraySize + 1

RECURSIVE OrderKeys(_)
OrderKeys(S) ==
    IF S = {} THEN <<>>
    ELSE LET t == CHOOSE x \in S : \A y \in S : Rank(x) <= Rank(y)
         IN  <<t>> \o OrderKeys(S \ {t})

\* ------------------------------------------------------------ field metadata
\* the external name of a field: the tag-name function when one is registered,
\* else the tag, else the bare name in implicit mode; explicit mode skips the rest
ResolveName(c, f) ==
    IF c.tagFn THEN [skip |-> FALSE, name |-> TagNameFn(f)]
    ELSE IF f.tag = "-" THEN [skip |-> TRUE, name |-> ""]
    ELSE IF f.tag # "" THEN [skip |-> FALSE, name |-> f.tag]
    ELSE IF c.mode = "implicit" THEN [skip |-> FALSE, name |-> f.name]
    ELSE [skip |-> TRUE, name |-> ""]

\* descriptors without flattening: an anonymous field is a field like any other
DescriptorsNoFlatten(c, T, loc, d, dyn) ==
    LET fs == TypeInfo(T).fields
        One(f) ==
            LET nm == ResolveName(c, f)
            IN  IF nm.skip THEN <<>>
                ELSE << [name |-> nm.name, loc |-> Append(loc, f.name), typ |-> f.typ,
                         depth |-> d] >>
        RECURSIVE Cat(_)
        Cat(i) == IF i > Len(fs) THEN <<>> ELSE One(fs[i]) \o Cat(i + 1)
    IN  Cat(1)

\* the descriptors of record type T, found at flattening depth d under Go
\* location loc.  An anonymous field without a tag is flattened when it is of
\* record kind (its fields join the list with no prefix, one level deeper) and
\* ignored when it is not; where it also resolves to a name it stays
\* addressable under that name.
RECURSIVE Descriptors(_, _, _, _, _)
Descriptors(c, T, loc, d, dyn) ==
    LET fs == TypeInfo(T).fields
        One(f) ==
            LET floc == Append(loc, f.name)
                ft == IF Kind(f.typ) = "iface" /\ floc \in DOMAIN dyn THEN dyn[floc] ELSE f.typ
                nm == ResolveName(c, f)
                named == IF nm.skip THEN <<>>
                         ELSE << [name |-> nm.name, loc |-> floc, typ |-> ft, depth |-> d] >>
            IN  IF f.anon /\ f.tag = ""
                THEN IF Kind(ft) = "struct"
                     THEN Descriptors(c, ft, floc, d + 1, dyn) \o named
                     ELSE <<>>
                ELSE named
        RECURSIVE Cat(_)
        Cat(i) == IF i > Len(fs) THEN <<>> ELSE One(fs[i]) \o Cat(i + 1)
    IN  Cat(1)

\* a descriptor takes part when every other descriptor of its name lies deeper:
\* a shallower one hides it, one at its own depth makes both ambiguous
Dominant(ds, i) ==
    \A j \in 1..Len(ds) : (j # i /\ ds[j].name = ds[i].name) => ds[j].depth > ds[i].depth

Visible(ds) ==
    LET RECURSIVE Keep(_)
        Keep(i) == IF i > Len(ds) THEN <<>>
                   ELSE (IF Dominant(ds, i) THEN <<ds[i]>> ELSE <<>>) \o Keep(i + 1)
    IN  Keep(1)

\* ------------------------------------------------------------ traverser
\* what a traversal does, in order: "set" a leaf, record an "err", "alloc" a
\* collection, "call" a custom function, "scan" the keys for indexes
Ev(op, loc, path, val) == [op |-> op, loc |-> loc, path |-> path, val |-> val]

RECURSIVE SetFieldByType(_, _, _, _)
RECURSIVE TraverseStruct(_, _, _, _)

\* the elements of a collection at path ns, one per token of its record
Elements(e, elemT, loc, ns, toks) ==
    LET RECURSIVE Cat(_)
        Cat(i) == IF i > Len(toks) THEN <<>>
                  ELSE SetFieldByType(e, elemT, Append(loc, toks[i]), IndexPath(ns, toks[i]))
                       \o Cat(i + 1)
    IN  Cat(1)

SetFieldByType(e, T, loc, ns) ==
    LET ti == TypeInfo(T)
        has == ns \in DOMAIN e.values
        dm == e.dm
        numeric(rd) == { t \in rd.keys : Atoi(TokenValue(t)).ok }
    IN  IF has /\ T \in e.c.customTypeFuncs
        THEN LET r == CustomFn(e.values[ns][1], e.arg)
             IN  << Ev("call", loc, ns, CustomV(e.values[ns][1], e.arg)),
                    Ev(IF r.ok THEN "setall" ELSE "err", loc, ns, r.v) >>
        ELSE CASE ti.kind = "struct" -> TraverseStruct(e, T, loc, ns)
               [] ti.kind \in {"string", "int", "time"} ->
                    IF ~has THEN <<>>
                    ELSE LET r == Convert(ti.kind, e.values[ns][1])
                         IN  << Ev(IF r.ok THEN "set" ELSE "err", loc, ns, r.v) >>
               [] ti.kind = "slice" ->
                    << Ev("scan", loc, ns, LenV(0)) >> \o
                    (IF ns \notin DOMAIN dm THEN <<>>
                     ELSE IF dm[ns].sliceLen > e.c.maxArraySize
                          THEN << Ev("err", loc, ns, ErrV("array size")) >>
                          ELSE << Ev("alloc", loc, ns, LenV(dm[ns].sliceLen)) >> \o
                               Elements(e, ti.elem, loc, ns, OrderKeys(numeric(dm[ns]))))
               \* an array is not allocated; an index past its length addresses nothing
               [] ti.kind = "array" ->
                    << Ev("scan", loc, ns, LenV(0)) >> \o
                    (IF ns \notin DOMAIN dm THEN <<>>
                     ELSE IF dm[ns].sliceLen > e.c.maxArraySize
                          THEN << Ev("err", loc, ns, ErrV("array size")) >>
                          ELSE Elements(e, ti.elem, loc, ns,
                                   OrderKeys({ t \in numeric(dm[ns]) :
                                                 Atoi(TokenValue(t)).n < ti.len })))
               [] ti.kind = "map" ->
                    << Ev("scan", loc, ns, LenV(0)) >> \o
                    (IF ns \notin DOMAIN dm THEN <<>>
                     ELSE Elements(e, ti.elem, loc, ns, OrderKeys(dm[ns].keys)))
               [] OTHER -> <<>>

TraverseStruct(e, T, loc, ns) ==
    LET ds == Visible(Descriptors(e.c, T, loc, 0, e.dyn))
        RECURSIVE Cat(_)
        Cat(i) == IF i > Len(ds) THEN <<>>
                  ELSE SetFieldByType(e, ds[i].typ, ds[i].loc, FieldPath(e.c, ns, ds[i].name))
                       \o Cat(i + 1)
    IN  Cat(1)

\* ------------------------------------------------------------ effects
Put(m, k, v) == [x \in (DOMAIN m) \cup {k} |-> IF x = k THEN v ELSE m[x]]

IsPrefix(p, q) == Len(p) <= Len(q) /\ SubSeq(q, 1, Len(p)) = p

\* a whole-value assignment drops what the value held beneath loc
PutAll(m, k, v) ==
    [x \in { y \in DOMAIN m : ~IsPrefix(k, y) } \cup {k} |-> IF x = k THEN v ELSE m[x]]

\* the leaves a traversal assigned, by external path
Assigned(evs) ==
    LET idx == { i \in 1..Len(evs) : evs[i].op \in {"set", "setall"} }
        last(p) == Max({ i \in idx : evs[i].path = p })
    IN  [p \in { evs[i].path : i \in idx } |-> evs[last(p)].val]

\* the per-field errors a traversal recorded, by external path
Recorded(evs) ==
    LET idx == { i \in 1..Len(evs) : evs[i].op = "err" }
        last(p) == Max({ i \in idx : evs[i].path = p })
    IN  [p \in { evs[i].path : i \in idx } |-> evs[last(p)].val]

\* the custom-function invocations of a traversal: [path, raw string and argument]
Invoked(evs) ==
    { [path |-> evs[i].path, v |-> evs[i].val] : i \in { j \in 1..Len(evs) : evs[j].op = "call" } }

\* the target value after the traversal's assignments
RECURSIVE Store(_, _, _)
Store(tv, evs, i) ==
    IF i > Len(evs) THEN tv
    ELSE Store(CASE evs[i].op \in {"set", "alloc"} -> Put(tv, evs[i].loc, evs[i].val)
                 [] evs[i].op = "setall" -> PutAll(tv, evs[i].loc, evs[i].val)
                 [] OTHER -> tv,
               evs, i + 1)

\* m with the entries of n written over it
Merge(m, n) == [x \in (DOMAIN m) \cup (DOMAIN n) |-> IF x \in DOMAIN n THEN n[x] ELSE m[x]]

\* ------------------------------------------------------------ inputs
KV(k, v) == k :> <<v>>

\* parseFormB and parseFormAB of the embedded-decoder example
parseFormB == KV(<<"Field">>, "B FieldVal")
parseFormAB == KV(<<"Field">>, "B FieldVal") @@ KV(<<"A", ".", "Field">>, "A FieldVal")

HeaderUpper == KV(<<"Header">>, "foo")
HeaderLower == KV(<<"header">>, "foo")
UserExact == KV(<<"User">>, "Name=joeybloggs")
UserExactBad == KV(<<"User">>, "bad") @@ KV(<<"Count">>, "7")
UserBeneath == KV(<<"User", ".", "Name">>, "joeybloggs")
FormTags == KV(<<"Tags", "[0]">>, "x") @@ KV(<<"Tags", "[2]">>, "y") @@ KV(<<"Count">>, "7")
FormEdge == KV(<<"Tags", "[9999]">>, "x") @@ KV(<<"Count">>, "7")
FormOver == KV(<<"Tags", "[10000]">>, "x") @@ KV(<<"Count">>, "7")
FormPairOver == KV(<<"Pair", "[1]">>, "p") @@ KV(<<"Pair", "[10000]">>, "q") @@ KV(<<"Count">>, "7")
FormBad == KV(<<"Count">>, "x") @@ KV(<<"User", ".", "Age">>, "x") @@ KV(<<"User", ".", "Name">>, "joeybloggs")
ScalarOK == KV(<<>>, "7")
TimeOK == KV(<<>>, "2026-01-02T03:04:05Z")
SliceTop == KV(<<"[0]">>, "a") @@ KV(<<"[1]">>, "b")
MapTop == KV(<<"[k]">>, "7")

\* the variables a caller decodes into, with their types
VarType(x) ==
    CASE x = "b" -> "B"
      [] x = "s" -> "S"
      [] x = "form" -> "Form"
      [] x = "n" -> "int"
      [] x = "t" -> "time.Time"
      [] x = "tags" -> "[]string"
      [] x = "m" -> "map[string]int"

VarNames == {"b", "s", "form", "n", "t", "tags", "m"}

\* the first argument of Decode: a pointer to a variable, a nil pointer, a
\* plain value, or nil
Ptr(x) == [ref |-> "ptr", typ |-> VarType(x), var |-> x]
NilPtr(t) == [ref |-> "nilptr", typ |-> t, var |-> ""]
Value(t) == [ref |-> "value", typ |-> t, var |-> ""]
Nil == [ref |-> "nil", typ |-> "", var |-> ""]

In(v, values, arg, sink) == [v |-> v, values |-> values, arg |-> arg, sink |-> sink]

\* what concurrent callers of one default Decoder decode
PoolWorkload ==
    { In(Ptr("form"), FormBad, 1, TRUE), In(Ptr("form"), FormBad, 1, FALSE),
      In(Ptr("form"), FormTags, 1, FALSE), In(Ptr("n"), ScalarOK, 1, TRUE),
      In(Value("int"), ScalarOK, 1, TRUE), In(NilPtr("Form"), FormTags, 1, TRUE),
      In(Nil, FormTags, 1, FALSE) }

\* what one caller of a configured Decoder decodes
CfgWorkload ==
    { In(Ptr("b"), parseFormB, 1, FALSE), In(Ptr("b"), parseFormAB, 1, FALSE),
      In(Ptr("s"), HeaderUpper, 1, FALSE), In(Ptr("s"), HeaderLower, 1, FALSE),
      In(Ptr("form"), UserExact, 1, FALSE), In(Ptr("form"), UserExact, 2, FALSE),
      In(Ptr("form"), UserExactBad, 1, FALSE), In(Ptr("form"), UserBeneath, 1, FALSE),
      In(Ptr("form"), FormTags, 1, FALSE), In(Ptr("form"), FormEdge, 1, FALSE),
      In(Ptr("form"), FormOver, 1, FALSE), In(Ptr("form"), FormPairOver, 1, FALSE),
      In(Ptr("tags"), SliceTop, 1, TRUE), In(Ptr("m"), MapTop, 1, TRUE),
      In(Ptr("t"), TimeOK, 1, TRUE) }

\* ------------------------------------------------------------ state
VARIABLES
    cfg,       \* the Decoder's fields
    pool,      \* dataPool: the contexts at rest in the pool
    made,      \* how many contexts the pool's New function has created
    ctx,       \* the fields of every context
    call,      \* per caller: the Decode call it is in, or its last result
    targets,   \* per caller: the values of its variables
    sinks,     \* the collectGoValues maps the callers supplied, by call number
    ncalls,    \* calls made so far
    workload,  \* the calls the callers may make
    asked,     \* what the callers asked the configuration methods for
    subject,   \* what the program made: a Decoder or an Encoder
    enc,       \* the Encoder's fields
    encRes     \* the last Encode call: its input, its result, its sink

vars == <<cfg, pool, made, ctx, call, targets, sinks, ncalls, workload, asked, subject,
          enc, encRes>>

decoderVars == <<cfg, pool, made, ctx, call, targets, sinks>>

\* ------------------------------------------------------------ values of the state
\* a nil DecodeErrors
NoErrs == [id |-> None, m |-> Empty]

\* the context the pool's New function returns
NewContext == [values |-> Empty, arg |-> None, dm |-> Empty, dmDone |-> FALSE,
               goValues |-> None, errs |-> NoErrs]

NilError == [kind |-> "nil", id |-> None, m |-> Empty, typ |-> [ptr |-> FALSE, name |-> ""]]
DecodeErrors(errs) == [kind |-> "DecodeErrors", id |-> errs.id, m |-> errs.m,
                       typ |-> [ptr |-> FALSE, name |-> ""]]

\* reflect.TypeOf of Decode's first argument
TypeOf(v) ==
    CASE v.ref = "nil" -> [ptr |-> FALSE, name |-> "nil"]
      [] v.ref = "value" -> [ptr |-> FALSE, name |-> v.typ]
      [] OTHER -> [ptr |-> TRUE, name |-> v.typ]

InvalidDecoderError(v) == [kind |-> "InvalidDecoderError", id |-> None, m |-> Empty,
                           typ |-> TypeOf(v)]

IdleCall == [pc |-> "idle", no |-> None, v |-> Nil, values |-> Empty, arg |-> None,
             sink |-> None, dec |-> None, recycled |-> FALSE, err |-> NilError,
             pre |-> Empty, assigned |-> Empty, recorded |-> Empty, invoked |-> {}]

\* the target test without its val.IsNil() half
InvalidTargetKindOnly(v) == v.ref \in {"value", "nil"}

\* val.Kind() != reflect.Ptr || val.IsNil()
InvalidTarget(v) == v.ref # "ptr"

\* val.Kind() == reflect.Struct && typ != timeType, of the pointee
IsStructTarget(v) == Kind(v.typ) = "struct"

\* ------------------------------------------------------------ Decoder: configuration
\* the sizes and the types the callers configure
Sizes == {2, defaultMaxArraySize + 1}
Registrable == {{"User"}}

\* registration is configuration-time only: before the first call
Configuring == subject = "decoder" /\ ncalls = 0

SetModeOf(c, mode) == [c EXCEPT !.mode = mode]

SetMode(mode) ==
    /\ Configuring
    /\ cfg' = SetModeOf(cfg, mode)
    /\ asked' = [asked EXCEPT !.mode = mode]
    /\ UNCHANGED <<pool, made, ctx, call, targets, sinks, ncalls, workload, subject, enc, encRes>>

\* a setter that leaves the limit as it was
SetMaxArraySizeKept(c, size) == c

SetMaxArraySizeOf(c, size) == [c EXCEPT !.maxArraySize = size]

SetMaxArraySize(size) ==
    /\ Configuring
    /\ cfg' = SetMaxArraySizeOf(cfg, size)
    /\ asked' = [asked EXCEPT !.maxArraySize = size]
    /\ UNCHANGED <<pool, made, ctx, call, targets, sinks, ncalls, workload, subject, enc, encRes>>

\* a registration that stores no function
RegisterTagNameFuncDropped(c) == c

RegisterTagNameFuncOf(c) == [c EXCEPT !.tagFn = TRUE]

RegisterTagNameFunc ==
    /\ Configuring
    /\ cfg' = RegisterTagNameFuncOf(cfg)
    /\ asked' = [asked EXCEPT !.tagFn = TRUE]
    /\ UNCHANGED <<pool, made, ctx, call, targets, sinks, ncalls, workload, subject, enc, encRes>>

\* a registration that stores the function against no type
RegisterFuncDropped(c, types) == c

RegisterFuncOf(c, types) == [c EXCEPT !.customTypeFuncs = @ \cup types]

RegisterFunc(types) ==
    /\ Configuring
    /\ cfg' = RegisterFuncOf(cfg, types)
    /\ asked' = [asked EXCEPT !.funcs = @ \cup types]
    /\ UNCHANGED <<pool, made, ctx, call, targets, sinks, ncalls, workload, subject, enc, encRes>>

\* ------------------------------------------------------------ Decoder.Decode
\* the call and its check of the target (lines 160-165)
DecodeEnter(c, no, w) ==
    IF InvalidTarget(w.v)
    THEN [c EXCEPT !.pc = "done", !.no = no, !.v = w.v, !.values = w.values, !.arg = w.arg,
                   !.sink = IF w.sink THEN no ELSE None, !.dec = None, !.recycled = FALSE,
                   !.err = InvalidDecoderError(w.v), !.pre = Empty, !.assigned = Empty,
                   !.recorded = Empty, !.invoked = {}]
    ELSE [c EXCEPT !.pc = "get", !.no = no, !.v = w.v, !.values = w.values, !.arg = w.arg,
                   !.sink = IF w.sink THEN no ELSE None, !.dec = None, !.recycled = FALSE,
                   !.err = NilError, !.pre = Empty, !.assigned = Empty,
                   !.recorded = Empty, !.invoked = {}]

Decode(p) ==
    /\ subject = "decoder"
    /\ call[p].pc \in {"idle", "done"}
    /\ ncalls < MaxCalls
    /\ \E w \in workload :
         /\ call' = [call EXCEPT ![p] = DecodeEnter(call[p], ncalls + 1, w)]
         /\ sinks' = IF w.sink THEN sinks @@ ((ncalls + 1) :> Empty) ELSE sinks
    /\ ncalls' = ncalls + 1
    /\ UNCHANGED <<cfg, pool, made, ctx, targets, workload, asked, subject, enc, encRes>>

\* a set-up that leaves the input mapping of a recycled context in place
SetupKeepValues(d, c) ==
    [d EXCEPT !.values = IF DOMAIN @ = {} THEN c.values ELSE @, !.arg = c.arg, !.dm = Empty,
              !.goValues = IF IsStructTarget(c.v) /\ c.sink # None THEN c.sink ELSE @]

\* the context once Decode has set it up for this call (lines 168-177)
Setup(d, c) ==
    [d EXCEPT !.values = c.values, !.arg = c.arg, !.dm = Empty,
              !.goValues = IF IsStructTarget(c.v) /\ c.sink # None THEN c.sink ELSE @]

\* a Get that hands out a context and leaves it in the pool
TakenKept(pl, d) == pl

\* the pool once Get has handed out context d
Taken(pl, d) == pl \ {d}

\* d.dataPool.Get(): a context at rest in the pool, or a new one (line 167)
PoolGet(p) ==
    /\ call[p].pc = "get"
    /\ \/ \E d \in pool :
            /\ pool' = Taken(pool, d)
            /\ ctx' = [ctx EXCEPT ![d] = Setup(ctx[d], call[p])]
            /\ call' = [call EXCEPT ![p].pc = "traverse", ![p].dec = d, ![p].recycled = TRUE]
            /\ made' = made
       \/ /\ made < MaxCtx
          /\ made' = made + 1
          /\ pool' = pool
          /\ ctx' = [ctx EXCEPT ![made + 1] = Setup(NewContext, call[p])]
          /\ call' = [call EXCEPT ![p].pc = "traverse", ![p].dec = made + 1,
                                  ![p].recycled = FALSE]
    /\ UNCHANGED <<cfg, targets, sinks, ncalls, workload, asked, subject, enc, encRes>>

\* what the traversal works with
Env(c, d) == [c |-> cfg, values |-> d.values, arg |-> d.arg, dyn |-> Empty,
              dm |-> IF d.dmDone THEN d.dm ELSE ParseMapData(d.values)]

\* traverseStruct for a record target, setFieldByType for any other (lines 174-182)
Events(c, d) ==
    IF IsStructTarget(c.v) THEN TraverseStruct(Env(c, d), c.v.typ, <<>>, <<>>)
    ELSE SetFieldByType(Env(c, d), c.v.typ, <<>>, <<>>)

\* setError: the error set is made on the first error of a context
SetErrors(errs, no, recorded) ==
    IF DOMAIN recorded = {} THEN errs
    ELSE [id |-> IF errs.id = None THEN no ELSE errs.id, m |-> Merge(errs.m, recorded)]

Scanned(evs) == \E i \in 1..Len(evs) : evs[i].op = "scan"

Traverse(p) ==
    /\ call[p].pc = "traverse"
    /\ LET c == call[p]
           d == ctx[c.dec]
           evs == Events(c, d)
       IN  /\ targets' = [targets EXCEPT ![p][c.v.var] = Store(@, evs, 1)]
           /\ sinks' = IF d.goValues = None THEN sinks
                       ELSE [sinks EXCEPT ![d.goValues] = Merge(@, Assigned(evs))]
           /\ ctx' = [ctx EXCEPT ![c.dec].errs = SetErrors(@, c.no, Recorded(evs)),
                                 ![c.dec].dm = IF Scanned(evs) THEN Env(c, d).dm ELSE @,
                                 ![c.dec].dmDone = @ \/ Scanned(evs)]
           /\ call' = [call EXCEPT ![p].pc = "extract", ![p].pre = targets[p][c.v.var],
                                   ![p].assigned = Assigned(evs),
                                   ![p].recorded = Recorded(evs),
                                   ![p].invoked = Invoked(evs)]
    /\ UNCHANGED <<cfg, pool, made, ncalls, workload, asked, subject, enc, encRes>>

\* the context with its error set left in place
ExtractedKeepErrs(d) == [d EXCEPT !.dmDone = FALSE]

\* the context once its errors are taken out (lines 184-191)
Extracted(d) ==
    [d EXCEPT !.errs = IF DOMAIN d.errs.m # {} THEN NoErrs ELSE @, !.dmDone = FALSE]

\* the error Decode returns (lines 184-189)
Result(d) == IF DOMAIN d.errs.m # {} THEN DecodeErrors(d.errs) ELSE NilError

Extract(p) ==
    /\ call[p].pc = "extract"
    /\ call' = [call EXCEPT ![p].pc = "put", ![p].err = Result(ctx[call[p].dec])]
    /\ ctx' = [ctx EXCEPT ![call[p].dec] = Extracted(@)]
    /\ UNCHANGED <<cfg, pool, made, targets, sinks, ncalls, workload, asked, subject, enc, encRes>>

\* d.dataPool.Put(dec) and the return (lines 193-195)
PoolPut(p) ==
    /\ call[p].pc = "put"
    /\ pool' = pool \cup {call[p].dec}
    /\ call' = [call EXCEPT ![p].pc = "done"]
    /\ UNCHANGED <<cfg, made, ctx, targets, sinks, ncalls, workload, asked, subject, enc, encRes>>

\* ------------------------------------------------------------ Encoder
\* NewEncoder: the defaults of a new Encoder
NewEncoder ==
    [tagName |-> "form", mode |-> "implicit", tagFn |-> FALSE,
     namespacePrefix |-> <<".">>, namespaceSuffix |-> <<>>]

NoEncode == [done |-> FALSE, typ |-> "", val |-> Empty, out |-> Empty,
             collect |-> Empty, sink |-> FALSE]

\* the string an encoded leaf is written as
Format(leaf) ==
    CASE leaf.k = "int" /\ leaf.n = 7 -> "7"
      [] leaf.k = "int" -> "0"
      [] OTHER -> leaf.s

\* the values the callers encode: the records of the two encoder tests, with
\* the dynamic type of what their Writer field holds
SValue(h) ==
    [typ |-> "S", val |-> (<<"Header">> :> StrV(h)),
     dyn |-> (<<"Writer">> :> "form.embeddedUnexported")]

S2Value(h, d, w) ==
    [typ |-> "S2",
     val |-> (<<"Header">> :> StrV(h))
             @@ (<<"DeeperEmbedded", "embedded", "DeeplyEmbedded">> :> StrV(d))
             @@ (<<"Writer", "WriterExported">> :> StrV(w))
             @@ (<<"Writer", "Hidden">> :> StrV("hidden")),
     dyn |-> (<<"Writer">> :> "internal.writerWithExported")]

BValue(f, af) ==
    [typ |-> "B", val |-> (<<"Field">> :> StrV(f)) @@ (<<"A", "Field">> :> StrV(af)),
     dyn |-> Empty]

EncValues ==
    { SValue(h) : h \in {"foo", "bar"} }
    \cup { S2Value(h, "baz", w) : h \in {"foo", ""}, w \in {"bar", "w"} }
    \cup { BValue("B FieldVal", "A FieldVal") }

\* the (path, leaf) pairs a record emits: one per descriptor that takes part
RECURSIVE EncodeStruct(_, _, _, _, _)
EncodeStruct(c, T, loc, ns, v) ==
    LET ds == Visible(Descriptors(c, T, loc, 0, v.dyn))
        One(d) ==
            LET path == FieldPath(c, ns, d.name)
            IN  CASE Kind(d.typ) = "struct" -> EncodeStruct(c, d.typ, d.loc, path, v)
                  [] Kind(d.typ) \in {"string", "int", "time"} ->
                       << [path |-> path,
                           leaf |-> IF d.loc \in DOMAIN v.val THEN v.val[d.loc]
                                    ELSE Convert(Kind(d.typ), "").v] >>
                  [] OTHER -> <<>>
        RECURSIVE Cat(_)
        Cat(i) == IF i > Len(ds) THEN <<>> ELSE One(ds[i]) \o Cat(i + 1)
    IN  Cat(1)

Emitted(c, v) ==
    LET ps == EncodeStruct(c, v.typ, <<>>, <<>>, v)
        last(p) == Max({ i \in 1..Len(ps) : ps[i].path = p })
    IN  [p \in { ps[i].path : i \in 1..Len(ps) } |-> ps[last(p)].leaf]

EncSetMode(mode) ==
    /\ subject = "encoder"
    /\ ~encRes.done
    /\ enc' = [enc EXCEPT !.mode = mode]
    /\ UNCHANGED <<decoderVars, ncalls, workload, asked, subject, encRes>>

EncRegisterTagNameFunc ==
    /\ subject = "encoder"
    /\ ~encRes.done
    /\ enc' = [enc EXCEPT !.tagFn = TRUE]
    /\ UNCHANGED <<decoderVars, ncalls, workload, asked, subject, encRes>>

\* Encode(v, collect): the url.Values and, when a sink is handed in, its entries
Encode(v, sink) ==
    /\ subject = "encoder"
    /\ ncalls < MaxCalls
    /\ ncalls' = ncalls + 1
    /\ encRes' = [done |-> TRUE, typ |-> v.typ, val |-> v.val,
                  out |-> [p \in DOMAIN Emitted(enc, v) |-> << Format(Emitted(enc, v)[p]) >>],
                  collect |-> IF sink THEN Emitted(enc, v) ELSE Empty,
                  sink |-> sink]
    /\ UNCHANGED <<decoderVars, workload, asked, subject, enc>>

\* ------------------------------------------------------------ specifications
ZeroTargets == [p \in Procs |-> [x \in VarNames |-> Empty]]

\* what a new Decoder has been asked for: nothing yet
AskedNothing == [mode |-> "implicit", maxArraySize |-> defaultMaxArraySize, tagFn |-> FALSE,
                 funcs |-> {}]

\* one default Decoder shared by concurrent callers
Init ==
    /\ cfg = NewDecoder
    /\ pool = {}
    /\ made = 0
    /\ ctx = [d \in CtxIds |-> NewContext]
    /\ call = [p \in Procs |-> IdleCall]
    /\ targets = ZeroTargets
    /\ sinks = Empty
    /\ ncalls = 0
    /\ workload = PoolWorkload
    /\ asked = AskedNothing
    /\ subject = "decoder"
    /\ enc = NewEncoder
    /\ encRes = NoEncode

Next ==
    \/ \E p \in Procs : Decode(p)
    \/ \E p \in Procs : PoolGet(p)
    \/ \E p \in Procs : Traverse(p)
    \/ \E p \in Procs : Extract(p)
    \/ \E p \in Procs : PoolPut(p)

Spec == Init /\ [][Next]_vars

\* a program that makes a Decoder or an Encoder, configures it, then uses it from
\* one caller
CfgInit ==
    /\ cfg = NewDecoder
    /\ pool = {}
    /\ made = 0
    /\ ctx = [d \in CtxIds |-> NewContext]
    /\ call = [p \in Procs |-> IF p = 1 THEN IdleCall ELSE [IdleCall EXCEPT !.pc = "off"]]
    /\ targets = ZeroTargets
    /\ sinks = Empty
    /\ ncalls = 0
    /\ workload = CfgWorkload
    /\ asked = AskedNothing
    /\ subject \in {"decoder", "encoder"}
    /\ enc = NewEncoder
    /\ encRes = NoEncode

CfgNext ==
    \/ \E mode \in {"implicit", "explicit"} : SetMode(mode)
    \/ \E size \in Sizes : SetMaxArraySize(size)
    \/ RegisterTagNameFunc
    \/ \E types \in Registrable : RegisterFunc(types)
    \/ \E p \in Procs : Decode(p)
    \/ \E p \in Procs : PoolGet(p)
    \/ \E p \in Procs : Traverse(p)
    \/ \E p \in Procs : Extract(p)
    \/ \E p \in Procs : PoolPut(p)
    \/ \E mode \in {"implicit", "explicit"} : EncSetMode(mode)
    \/ EncRegisterTagNameFunc
    \/ \E v \in EncValues : \E sink \in BOOLEAN : Encode(v, sink)

CfgSpec == CfgInit /\ [][CfgNext]_vars

\* ------------------------------------------------------------ claims
InFlight(p) == call[p].pc \in {"traverse", "extract", "put"}
Traversed(p) == call[p].pc \in {"extract", "put", "done"} /\ call[p].v.ref = "ptr"
Returned(p) == call[p].pc = "done" /\ call[p].v.ref = "ptr"

\* C1: a Decode call whose target is not a pointer, or is a nil pointer, returns at
\* once an InvalidDecoderError carrying the target's type: the step that makes the
\* call ends it, takes no context from the pool, leaves the Decoder, every context,
\* every target and every sink as it was, and the sink it was handed stays empty.
C1_InvalidTargetRejected ==
    [][\A p \in Procs :
         (call'[p].no # call[p].no /\ call'[p].v.ref # "ptr") =>
            /\ call'[p].pc = "done"
            /\ call'[p].dec = None
            /\ call'[p].err.kind = "InvalidDecoderError"
            /\ call'[p].err.typ.name =
                 (IF call'[p].v.ref = "nil" THEN "nil" ELSE call'[p].v.typ)
            /\ call'[p].err.typ.ptr = (call'[p].v.ref = "nilptr")
            /\ UNCHANGED <<cfg, pool, made, ctx, targets>>
            /\ \A k \in DOMAIN sinks : sinks'[k] = sinks[k]
            /\ call'[p].sink # None => sinks'[call'[p].sink] = Empty]_vars

\* a nil-pointer call with a sink has been rejected while a context rests in the pool
C1_Witness ==
    \E p \in Procs :
        /\ call[p].pc = "done" /\ call[p].v.ref = "nilptr" /\ call[p].sink # None
        /\ call[p].err.kind = "InvalidDecoderError"
        /\ pool # {}

\* C2: when a call starts traversal with a recycled context, the context holds no
\* index records, no errors, a cleared index-scan-done flag, and no sink other than
\* the one this call supplied.
C2_RecycledContextReset ==
    \A p \in Procs :
        (call[p].pc = "traverse" /\ call[p].recycled) =>
            LET d == ctx[call[p].dec]
            IN  /\ DOMAIN d.dm = {}
                /\ DOMAIN d.errs.m = {}
                /\ ~d.dmDone
                /\ d.goValues # None => d.goValues = call[p].sink

\* C3: no context is held by two calls in flight, a context in flight is not in the
\* pool, and an error set a call has taken out is referenced by no context.
C3_ContextExclusive ==
    /\ \A p, q \in Procs : (p # q /\ InFlight(p) /\ InFlight(q)) => call[p].dec # call[q].dec
    /\ \A p \in Procs : InFlight(p) => call[p].dec \notin pool
    /\ \A p \in Procs : call[p].pc = "traverse" => call[p].dec \notin pool
    /\ \A d \in pool : ctx[d].errs.id = None
    /\ \A p \in Procs : \A d \in CtxIds :
          call[p].err.kind = "DecodeErrors" => ctx[d].errs.id # call[p].err.id

\* two calls are in flight at once: one is about to traverse, the other has taken
\* its errors out and is about to return its context
C3_Witness ==
    \E p, q \in Procs :
        /\ p # q
        /\ call[p].pc = "traverse"
        /\ call[q].pc = "put" /\ call[q].err.kind = "DecodeErrors"

\* C4: a call with a valid target returns nil exactly when its traversal recorded no
\* per-field error, and otherwise one composite error holding exactly the errors its
\* traversal recorded, by path.
C4_ErrorsOfThisCall ==
    \A p \in Procs :
        (call[p].pc \in {"put", "done"} /\ call[p].v.ref = "ptr") =>
            /\ call[p].err.kind = "nil" <=> DOMAIN call[p].recorded = {}
            /\ DOMAIN call[p].recorded # {} =>
                  /\ call[p].err.kind = "DecodeErrors"
                  /\ call[p].err.m = call[p].recorded

\* a call returned nil on the recycled context of an earlier call that returned errors
C4_Witness ==
    \E p, q \in Procs :
        /\ p # q /\ Returned(p) /\ Returned(q)
        /\ call[p].dec = call[q].dec /\ call[q].recycled /\ call[q].no > call[p].no
        /\ call[p].err.kind = "DecodeErrors" /\ DOMAIN call[p].err.m = {<<"Count">>, <<"User", ".", "Age">>}
        /\ call[q].err.kind = "nil"

\* C5: when a call with a valid target was handed a sink, every leaf its traversal
\* assigned is in that sink under its path, whatever the kind of the target.
C5_SinkMirrorsLeaves ==
    \A p \in Procs :
        (Traversed(p) /\ call[p].sink # None) =>
            \A path \in DOMAIN call[p].assigned :
                /\ path \in DOMAIN sinks[call[p].sink]
                /\ sinks[call[p].sink][path] = call[p].assigned[path]

\* what a value holds at and beneath location f
Under(tv, f) == [x \in { y \in DOMAIN tv : IsPrefix(f, y) } |-> tv[x]]

\* the mapping has a numeric index for path f at or above the limit
OverBound(values, f, limit) ==
    \E k \in DOMAIN values :
        /\ Len(k) > Len(f) /\ IsPrefix(f, k) /\ IsIndexToken(k[Len(f) + 1])
        /\ Atoi(TokenValue(k[Len(f) + 1])).ok
        /\ Atoi(TokenValue(k[Len(f) + 1])).n >= limit

\* the untagged fields of Form take part under their own names: in implicit mode,
\* or when the tag-name function names them
FormFieldsNamed == asked.mode = "implicit" \/ asked.tagFn

\* C6: for the slice field Tags and the array field Pair, an index at or above the
\* maximum the caller configured (10000 when it configured none) gives a per-field
\* error at the field's path, nothing is allocated or assigned at the field, the
\* sibling Count is still decoded and the call returns the composite error.
C6_IndexBound ==
    \A p \in Procs :
        (Returned(p) /\ call[p].v.var = "form" /\ FormFieldsNamed) =>
            \A f \in {<<"Tags">>, <<"Pair">>} :
                OverBound(call[p].values, f, asked.maxArraySize) =>
                    /\ f \in DOMAIN call[p].recorded
                    /\ call[p].err.kind = "DecodeErrors" /\ f \in DOMAIN call[p].err.m
                    /\ Under(targets[p]["form"], f) = Under(call[p].pre, f)
                    /\ <<"Count">> \in DOMAIN call[p].values =>
                          /\ <<"Count">> \in DOMAIN call[p].assigned
                          /\ targets[p]["form"][<<"Count">>] = IntV(7)

\* with the maximum set to 2, index 2 of Tags was refused and Count was decoded
C6_Witness ==
    \E p \in Procs :
        /\ Returned(p) /\ call[p].values = FormTags /\ asked.maxArraySize = 2
        /\ <<"Tags">> \in DOMAIN call[p].err.m
        /\ <<"Tags">> \notin DOMAIN targets[p]["form"]
        /\ targets[p]["form"][<<"Count">>] = IntV(7)

\* C7: with a custom function registered for the record type User, the function is
\* invoked for the field User exactly when the mapping has the key "User": then it
\* gets the raw string and the auxiliary argument and nothing beneath the field is
\* decoded field by field; with only keys beneath "User" it is not invoked and the
\* record is traversed field by field.
C7_CustomFuncOnExactKey ==
    \A p \in Procs :
        (Traversed(p) /\ call[p].v.var = "form" /\ "User" \in asked.funcs /\ FormFieldsNamed) =>
            IF <<"User">> \in DOMAIN call[p].values
            THEN /\ call[p].invoked =
                       { [path |-> <<"User">>,
                          v |-> CustomV(call[p].values[<<"User">>][1], call[p].arg)] }
                 /\ \A path \in (DOMAIN call[p].assigned) \cup (DOMAIN call[p].recorded) :
                       IsPrefix(<<"User">>, path) => path = <<"User">>
                 /\ <<"User">> \in DOMAIN call[p].assigned =>
                       Under(targets[p]["form"], <<"User">>) =
                           (<<"User">> :> CustomV(call[p].values[<<"User">>][1], call[p].arg))
            ELSE /\ call[p].invoked = {}
                 /\ <<"User", ".", "Name">> \in DOMAIN call[p].values =>
                       /\ <<"User", ".", "Name">> \in DOMAIN call[p].assigned
                       /\ targets[p]["form"][<<"User", "Name">>] =
                              StrV(call[p].values[<<"User", ".", "Name">>][1])

\* the function was invoked with "Name=joeybloggs" and argument 2 and set the field
C7_Witness ==
    \E p \in Procs :
        /\ Returned(p) /\ "User" \in asked.funcs
        /\ call[p].values = UserExact /\ call[p].arg = 2
        /\ call[p].invoked = { [path |-> <<"User">>, v |-> CustomV("Name=joeybloggs", 2)] }
        /\ targets[p]["form"][<<"User">>] = CustomV("Name=joeybloggs", 2)

\* C8: in implicit mode, decoding into B sets the outer Field to the value of key
\* "Field"; the embedded A.Field gets the value of key "A.Field" when the mapping
\* has it and is otherwise left as it was before the call, also on the second of
\* two decodes into the same variable.
C8_EmbeddedField ==
    \A p \in Procs :
        (Returned(p) /\ call[p].v.var = "b" /\ asked.mode = "implicit") =>
            /\ <<"Field">> \in DOMAIN targets[p]["b"]
            /\ targets[p]["b"][<<"Field">>] = StrV(call[p].values[<<"Field">>][1])
            /\ IF <<"A", ".", "Field">> \in DOMAIN call[p].values
               THEN /\ <<"A", "Field">> \in DOMAIN targets[p]["b"]
                    /\ targets[p]["b"][<<"A", "Field">>] =
                           StrV(call[p].values[<<"A", ".", "Field">>][1])
               ELSE Under(targets[p]["b"], <<"A">>) = Under(call[p].pre, <<"A">>)

\* the second decode of the example: b held only the outer Field, and the mapping
\* with both keys set the embedded one
C8_Witness ==
    \E p \in Procs :
        /\ Returned(p) /\ call[p].v.var = "b" /\ asked.mode = "implicit"
        /\ call[p].recycled /\ call[p].values = parseFormAB
        /\ call[p].pre = (<<"Field">> :> StrV("B FieldVal"))
        /\ targets[p]["b"] = (<<"Field">> :> StrV("B FieldVal"))
                             @@ (<<"A", "Field">> :> StrV("A FieldVal"))

\* C9: in explicit mode without a tag-name function, encoding the record of the
\* unexported-embed test emits exactly the keys "deeply-embedded", "header" and
\* "writer-exported", each with the value of its field, and a sink handed in holds
\* the same paths with those values.
C9_EmbeddedTagsFlattened ==
    (encRes.done /\ encRes.typ = "S2" /\ enc.mode = "explicit" /\ ~enc.tagFn) =>
        /\ encRes.out =
              (<<"deeply-embedded">> :>
                   << encRes.val[<<"DeeperEmbedded", "embedded", "DeeplyEmbedded">>].s >>)
              @@ (<<"header">> :> << encRes.val[<<"Header">>].s >>)
              @@ (<<"writer-exported">> :> << encRes.val[<<"Writer", "WriterExported">>].s >>)
        /\ encRes.sink =>
              encRes.collect =
                  (<<"deeply-embedded">> :>
                       encRes.val[<<"DeeperEmbedded", "embedded", "DeeplyEmbedded">>])
                  @@ (<<"header">> :> encRes.val[<<"Header">>])
                  @@ (<<"writer-exported">> :> encRes.val[<<"Writer", "WriterExported">>])

\* the test's call: baz, foo and bar encoded with a sink
C9_Witness ==
    /\ encRes.done /\ encRes.typ = "S2" /\ enc.mode = "explicit" /\ ~enc.tagFn
    /\ encRes.sink
    /\ encRes.out = (<<"deeply-embedded">> :> <<"baz">>) @@ (<<"header">> :> <<"foo">>)
                    @@ (<<"writer-exported">> :> <<"bar">>)

\* C10: in explicit mode with the tag-name function registered, record S takes part
\* under the one key "Header": the mapping {"Header": "foo"} decodes to Header "foo"
\* and nothing else, the mapping {"header": "foo"} assigns nothing, neither gives an
\* error, and S encodes to exactly {"Header": [its Header]}.
C10_TagNameFuncNamesField ==
    /\ \A p \in Procs :
          (Traversed(p) /\ call[p].v.var = "s" /\ asked.mode = "explicit" /\ asked.tagFn) =>
              /\ DOMAIN call[p].recorded = {}
              /\ call[p].values = HeaderUpper =>
                    /\ DOMAIN call[p].assigned = {<<"Header">>}
                    /\ targets[p]["s"] = (<<"Header">> :> StrV("foo"))
              /\ call[p].values = HeaderLower =>
                    /\ DOMAIN call[p].assigned = {}
                    /\ targets[p]["s"] = call[p].pre
    /\ (encRes.done /\ encRes.typ = "S" /\ enc.mode = "explicit" /\ enc.tagFn) =>
          encRes.out = (<<"Header">> :> << encRes.val[<<"Header">>].s >>)

\* the test's call: S with Header "foo" encoded to {"Header": ["foo"]}
C10_Witness ==
    /\ encRes.done /\ encRes.typ = "S" /\ enc.mode = "explicit" /\ enc.tagFn
    /\ encRes.val[<<"Header">>] = StrV("foo")
    /\ encRes.out = (<<"Header">> :> <<"foo">>)

====
